---- MODULE Spec2Model ----
(***************************************************************************)
(* Client-name reconciliation of the Contract Intelligence Agent           *)
(* (src/src/client_mapping/mapper.py): ClientMapper._normalize_name and    *)
(* ClientMapper._match_client.                                             *)
(*                                                                         *)
(* A Python str is a sequence of one-character strings.  A score is the    *)
(* integer 0..100 that fuzz.ratio returns; a confidence_score and the      *)
(* threshold, which the code keeps as score / 100, are kept in hundredths  *)
(* (confidence 0.62 is 62, threshold 0.75 is 75).                          *)
(***************************************************************************)
EXTENDS Integers, Sequences, FiniteSets, TLC

VARIABLES
    \* ---- one call of _match_client ----
    client_info,          \* the candidate: primary_name, alternative_names
    existing_clients,     \* the registry snapshot returned by _get_clients
    threshold,            \* config.client_mapping_confidence_threshold (hundredths)
    pc,                   \* position in _match_client
    idx,                  \* index of the client the for loop is at
    normalized_primary,
    best_match,           \* position of the client object held, or NoClient
    best_score,
    best_client_id,
    best_client_name,
    match_reasons,
    alternative_matches,
    comparisons,          \* number of name comparisons performed so far
    compared,             \* the scores computed so far, in the order computed
    result,               \* the returned dict
    \* ---- calls of _normalize_name ----
    name_in,              \* a name
    name_var,             \* the same name in another case / suffix punctuation
    norm_once,            \* _normalize_name(name_in)
    norm_var,             \* _normalize_name(name_var)
    norm_twice,           \* _normalize_name(norm_once)
    npc,
    \* ---- the ClientMapper object and its calls of map_client ----
    client_cache,         \* self.client_cache: <<>> for None, else <<list>>
    client_cache_timestamp,
    current_time,         \* datetime.now().timestamp(), in seconds
    erp_clients,          \* the clients ERPNext holds
    api_calls,            \* number of calls of erpnext_api.get_clients
    saved,                \* the mapping results written by save_json
    calls,                \* number of calls of map_client
    argument,             \* the client_info of the last call of map_client
    mapped,               \* how that call ended
    got_clients,          \* the list the last call of _get_clients returned
    fetch_ok,             \* how the last request for the clients ended
    \* ---- the cycles of process_documents and what they act on ----
    alert_periods,        \* config.alert_periods
    today,                \* datetime.now().date(), as a day number
    erpnext_record,       \* the argument of the last call of generate_alerts
    alerts,               \* the Alert records ERPNext holds
    alert_calls,          \* number of calls of generate_alerts
    error_alerts,         \* the documents send_error_alert was called for
    contracts,            \* the ContractCustom records ERPNext holds
    processed_file,       \* the id set in processed_files.pickle
    processed_ids,        \* drive_monitor.processed_ids of the current cycle
    new_documents,        \* the list get_new_documents returned
    doc_idx,              \* position of the for loop in new_documents
    cycle_pc,             \* position in process_documents
    cycles,               \* number of cycles started
    faults,               \* number of operations that have failed so far
    failed,               \* the kinds of operation that have failed so far
    marked,               \* the documents mark_as_processed was called for
    outcome,              \* how far the last attempt at each document got
    last,                 \* what the last step of a cycle did
    expiration_checks     \* number of calls of check_contract_expirations

matchVars ==
    <<client_info, existing_clients, threshold, pc, idx, normalized_primary,
      best_match, best_score, best_client_id, best_client_name, match_reasons,
      alternative_matches, comparisons, compared, result>>

normVars ==
    <<name_in, name_var, norm_once, norm_var, norm_twice, npc>>

mapperVars ==
    <<client_cache, client_cache_timestamp, current_time, erp_clients,
      api_calls, saved, calls, argument, mapped, got_clients, fetch_ok>>

cycleVars ==
    <<alert_periods, today, erpnext_record, alerts, alert_calls, error_alerts,
      contracts, processed_file, processed_ids, new_documents, doc_idx,
      cycle_pc, cycles, faults, failed, marked, outcome, last,
      expiration_checks>>

vars ==
    <<client_info, existing_clients, threshold, pc, idx, normalized_primary,
      best_match, best_score, best_client_id, best_client_name, match_reasons,
      alternative_matches, comparisons, compared, result,
      name_in, name_var, norm_once, norm_var, norm_twice, npc,
      client_cache, client_cache_timestamp, current_time, erp_clients,
      api_calls, saved, calls, argument, mapped, got_clients, fetch_ok,
      alert_periods, today, erpnext_record, alerts, alert_calls, error_alerts,
      contracts, processed_file, processed_ids, new_documents, doc_idx,
      cycle_pc, cycles, faults, failed, marked, outcome, last,
      expiration_checks>>

\* Python None where a client id is expected, where a str is expected, and
\* where a client object is expected (clients are referred to by position)
None == "None"

NoName == <<"None">>

NoClient == 0

(***************************************************************************)
(* Python string primitives used by _normalize_name.                       *)
(***************************************************************************)
UpperLetters ==
    <<"A", "B", "C", "D", "E", "F", "G", "H", "I", "J", "K", "L", "M",
      "N", "O", "P", "Q", "R", "S", "T", "U", "V", "W", "X", "Y", "Z">>

LowerLetters ==
    <<"a", "b", "c", "d", "e", "f", "g", "h", "i", "j", "k", "l", "m",
      "n", "o", "p", "q", "r", "s", "t", "u", "v", "w", "x", "y", "z">>

\* str.lower() on one character
lowerChar(c) ==
    IF \E k \in 1..26 : UpperLetters[k] = c
    THEN LowerLetters[CHOOSE k \in 1..26 : UpperLetters[k] = c]
    ELSE c

\* str.lower()
lower(s) ==
    [i \in 1..Len(s) |-> lowerChar(s[i])]

\* str.replace(old, new): every non-overlapping occurrence, left to right
RECURSIVE replace(_, _, _)
replace(s, old, new) ==
    IF Len(s) < Len(old) THEN s
    ELSE IF SubSeq(s, 1, Len(old)) = old
         THEN new \o replace(SubSeq(s, Len(old) + 1, Len(s)), old, new)
         ELSE <<Head(s)>> \o replace(Tail(s), old, new)

Whitespace == {" "}

RECURSIVE lstrip(_)
lstrip(s) ==
    IF s # <<>> /\ Head(s) \in Whitespace THEN lstrip(Tail(s)) ELSE s

RECURSIVE rstrip(_)
rstrip(s) ==
    IF s # <<>> /\ s[Len(s)] \in Whitespace
    THEN rstrip(SubSeq(s, 1, Len(s) - 1)) ELSE s

\* str.strip()
strip(s) ==
    rstrip(lstrip(s))

(***************************************************************************)
(* ClientMapper._normalize_name                                            *)
(***************************************************************************)
replacements ==
    << <<" ", "i", "n", "c", ".">>,
       <<" ", "i", "n", "c", "o", "r", "p", "o", "r", "a", "t", "e", "d">>,
       <<" ", "c", "o", "r", "p", ".">>,
       <<" ", "c", "o", "r", "p", "o", "r", "a", "t", "i", "o", "n">>,
       <<" ", "l", "l", "c">>,
       <<" ", "l", ".", "l", ".", "c", ".">>,
       <<" ", "l", "t", "d">>,
       <<" ", "l", "i", "m", "i", "t", "e", "d">>,
       <<" ", "g", "m", "b", "h">>,
       <<" ", "c", "o", ".">>,
       <<" ", "c", "o", "m", "p", "a", "n", "y">>,
       <<",">>,
       <<".">> >>

\* for old, new in replacements: name = name.replace(old, new)
RECURSIVE applyReplacements(_, _)
applyReplacements(name, k) ==
    IF k > Len(replacements) THEN name
    ELSE applyReplacements(replace(name, replacements[k], <<>>), k + 1)

_normalize_name(name) ==
    IF name = NoName \/ name = <<>> THEN <<>>
    ELSE strip(applyReplacements(lower(name), 1))

(***************************************************************************)
(* fuzz.ratio of fuzzywuzzy: 100 for equal strings, 0 when one is empty,   *)
(* otherwise round(100 * 2*M / T), M the matched characters (the longest   *)
(* common subsequence) and T the total length.                             *)
(***************************************************************************)
Max(a, b) ==
    IF a >= b THEN a ELSE b

\* one row of the longest-common-subsequence table; row[j+1] is column j
RECURSIVE lcsRow(_, _, _, _)
lcsRow(x, b, prev, cur) ==
    IF Len(cur) = Len(b) + 1 THEN cur
    ELSE LET j == Len(cur)
         IN  lcsRow(x, b, prev,
                    Append(cur, IF x = b[j] THEN prev[j] + 1
                                ELSE Max(prev[j + 1], cur[j])))

RECURSIVE lcsRows(_, _, _, _)
lcsRows(a, b, i, prev) ==
    IF i > Len(a) THEN prev[Len(b) + 1]
    ELSE lcsRows(a, b, i + 1, lcsRow(a[i], b, prev, <<0>>))

lcs(a, b) ==
    lcsRows(a, b, 1, [j \in 1..(Len(b) + 1) |-> 0])

\* int(round(num / den)), Python 3 rounding (half to even)
intr(num, den) ==
    LET q == num \div den
        r == num % den
    IN  IF 2 * r > den THEN q + 1
        ELSE IF 2 * r = den /\ q % 2 = 1 THEN q + 1
        ELSE q

ratio(s1, s2) ==
    IF s1 = s2 THEN 100
    ELSE IF Len(s1) = 0 \/ Len(s2) = 0 THEN 0
    ELSE intr(200 * lcs(s1, s2), Len(s1) + Len(s2))

(***************************************************************************)
(* ClientMapper._match_client.  The scan of the registry is a fold of one  *)
(* step per client over the running best; the actions below take the same  *)
(* steps one client at a time.                                             *)
(***************************************************************************)
\* the locals of the scan: best_score, best_match, best_client_id,
\* best_client_name, match_reasons, alternative_matches; cmp counts the
\* comparisons made, broke records the break out of the for loop and log
\* keeps the scores computed
Scan(score, match, id, name, reasons, alts, cmp, broke, log) ==
    [score |-> score, match |-> match, id |-> id, name |-> name,
     reasons |-> reasons, alts |-> alts, cmp |-> cmp, broke |-> broke,
     log |-> log]

\* lines 138-144
ScanStart ==
    Scan(0, NoClient, None, NoName, <<>>, <<>>, 0, FALSE, <<>>)

\* one computed score: the candidate name (normalized) compared with client
\* ci, against its alias number alias, its name (alias 0) or its name in the
\* exact check that succeeded (alias -1); best is the running best after it
Compared(ci, name, alias, score, best) ==
    [client |-> ci, name |-> name, alias |-> alias, score |-> score,
     best |-> best]

\* the comparison is counted and its score kept
count(st, ci, name, alias, score) ==
    [st EXCEPT !.cmp = st.cmp + 1,
               !.log = Append(st.log, Compared(ci, name, alias, score,
                                               Max(st.score, score)))]

\* best_score, best_match, ... = score, client, ... with the given reason
setBest(st, score, ci, client, reason) ==
    [st EXCEPT !.score = score, !.match = ci, !.id = client.client_id,
               !.name = client.client_name, !.reasons = <<reason>>]

\* the aliases are never compared
\* a score that only equals the running best replaces it too
better_OrEqual(score, best) ==
    score >= best

\* if score > best_score (line 174), if alias_score > best_score (line 189)
better(score, best) ==
    score > best

\* the aliases are compared whatever the running best is
goodEnough_Never(best) ==
    FALSE

\* if best_score > 95: continue (line 181)
goodEnough(best) ==
    best > 95

aliasLoop_NoAlias(normalized_name, client, ci, j, st) ==
    st

\* for alias in client_aliases: ... (lines 186-195)
RECURSIVE aliasLoop(_, _, _, _, _)
aliasLoop(normalized_name, client, ci, j, st) ==
    IF j > Len(client.client_aliases) THEN st
    ELSE LET alias == client.client_aliases[j]
             alias_score == ratio(normalized_name, _normalize_name(alias))
             counted == count(st, ci, normalized_name, j, alias_score)
         IN  aliasLoop(normalized_name, client, ci, j + 1,
                 IF better(alias_score, st.score)
                 THEN setBest(counted, alias_score, ci, client,
                              [kind |-> "alias", score |-> alias_score,
                               alias |-> alias])
                 ELSE counted)

\* for name_to_check in all_names_to_check: ... (lines 168-195)
RECURSIVE namesLoop(_, _, _, _, _)
namesLoop(client, ci, all_names_to_check, k, st) ==
    IF k > Len(all_names_to_check) THEN st
    ELSE LET normalized_name == _normalize_name(all_names_to_check[k])
             score == ratio(normalized_name, _normalize_name(client.client_name))
             counted == count(st, ci, normalized_name, 0, score)
             st1 == IF better(score, st.score)
                    THEN setBest(counted, score, ci, client,
                                 [kind |-> "client name", score |-> score])
                    ELSE counted
         IN  namesLoop(client, ci, all_names_to_check, k + 1,
                 IF goodEnough(st1.score) THEN st1
                 ELSE aliasLoop(normalized_name, client, ci, 1, st1))

\* the client holding the best match is recorded like any other
isAlternative_AnyClient(score, match, ci) ==
    score < 95 /\ score > 60

\* if best_score < 95 and best_score > 60 and best_match is not client (line 198)
isAlternative(score, match, ci) ==
    score < 95 /\ score > 60 /\ match # ci

\* the primary name is also looked for among the aliases of the client
isExact_OrAlias(normPrimary, client) ==
    \/ normPrimary = _normalize_name(client.client_name)
    \/ \E j \in 1..Len(client.client_aliases) :
          normPrimary = _normalize_name(client.client_aliases[j])

\* if normalized_primary == normalized_client_name (line 159)
isExact(normPrimary, client) ==
    normPrimary = _normalize_name(client.client_name)

\* lines 159-165: the exact match; the for loop is left
exactStep(st, ci, client) ==
    [st EXCEPT !.score = 100, !.match = ci, !.id = client.client_id,
               !.name = client.client_name,
               !.reasons = Append(st.reasons, [kind |-> "exact"]),
               !.cmp = st.cmp + 1, !.broke = TRUE,
               !.log = Append(st.log,
                              Compared(ci, _normalize_name(client.client_name),
                                       -1, 100, 100))]

\* lines 167-203: a client that is not an exact match
fuzzyStep(st, ci, client, all_names_to_check) ==
    LET st1 == namesLoop(client, ci, all_names_to_check, 1,
                         [st EXCEPT !.cmp = st.cmp + 1])
    IN  IF isAlternative(st1.score, st1.match, ci)
        THEN [st1 EXCEPT !.alts =
                 Append(st1.alts, [client_id |-> client.client_id,
                                   client_name |-> client.client_name,
                                   confidence_score |-> st1.score])]
        ELSE st1

\* all_names_to_check = [primary_name] + alternative_names (line 136)
allNames(info) ==
    <<info.primary_name>> \o info.alternative_names

\* one iteration of: for client in existing_clients (lines 150-203)
clientStep(st, ci, client, info, normPrimary) ==
    IF isExact(normPrimary, client)
    THEN exactStep(st, ci, client)
    ELSE fuzzyStep(st, ci, client, allNames(info))

\* for client in existing_clients: ... (lines 150-203)
RECURSIVE scanFrom(_, _, _, _, _)
scanFrom(clients, ci, info, normPrimary, st) ==
    IF ci > Len(clients) \/ st.broke THEN st
    ELSE scanFrom(clients, ci + 1, info, normPrimary,
                  clientStep(st, ci, clients[ci], info, normPrimary))

\* sorted(alternative_matches, key=confidence_score, reverse=True): stable
RECURSIVE insertDesc(_, _)
insertDesc(sortedSeq, e) ==
    IF sortedSeq = <<>> THEN <<e>>
    ELSE IF Head(sortedSeq).confidence_score >= e.confidence_score
         THEN <<Head(sortedSeq)>> \o insertDesc(Tail(sortedSeq), e)
         ELSE <<e>> \o sortedSeq

\* the alternatives are returned in the order they were recorded
sortedDesc_Unsorted(alts) ==
    alts

RECURSIVE sortedDesc(_)
sortedDesc(alts) ==
    IF alts = <<>> THEN <<>>
    ELSE insertDesc(sortedDesc(SubSeq(alts, 1, Len(alts) - 1)), alts[Len(alts)])

\* seq[:n]
firstN(s, n) ==
    SubSeq(s, 1, IF Len(s) < n THEN Len(s) ELSE n)

\* the comparison with the threshold the wrong way round
accepted_Reversed(score, thr) ==
    score <= thr

\* if normalized_score >= self.config.client_mapping_confidence_threshold (line 209)
accepted(score, thr) ==
    score >= thr

\* the dict returned at lines 123-129
emptyDecision(info) ==
    [matched_client_id |-> None,
     matched_client_name |-> NoName,
     confidence_score |-> 0,
     recommendation |-> "CREATE_NEW_CLIENT",
     suggested_client_name |-> info.primary_name]

\* the dict returned at lines 210-220
matchDecision(st) ==
    [matched_client_id |-> st.id,
     matched_client_name |-> st.name,
     confidence_score |-> st.score,
     match_reasons |-> st.reasons,
     alternative_matches |-> firstN(sortedDesc(st.alts), 3)]

\* the normalized name is suggested instead of the extracted one
createDecision_Normalized(st, info) ==
    [matched_client_id |-> None,
     matched_client_name |-> NoName,
     confidence_score |-> IF st.match # NoClient THEN st.score ELSE 0,
     recommendation |-> "CREATE_NEW_CLIENT",
     suggested_client_name |-> _normalize_name(info.primary_name),
     alternative_matches |-> firstN(sortedDesc(st.alts), 5)]

\* the dict returned at lines 223-234
createDecision(st, info) ==
    [matched_client_id |-> None,
     matched_client_name |-> NoName,
     confidence_score |-> IF st.match # NoClient THEN st.score ELSE 0,
     recommendation |-> "CREATE_NEW_CLIENT",
     suggested_client_name |-> info.primary_name,
     alternative_matches |-> firstN(sortedDesc(st.alts), 5)]

\* lines 205-234: the decision returned after the scan
decide(st, info, thr) ==
    IF accepted(st.score, thr) THEN matchDecision(st)
    ELSE createDecision(st, info)

\* lines 146-203: the scan of a registry that is not empty
scanAll(info, clients) ==
    scanFrom(clients, 1, info, _normalize_name(info.primary_name), ScanStart)

\* the whole call as a function of candidate, registry and threshold
_match_client(info, clients, thr) ==
    IF clients = <<>> THEN emptyDecision(info)
    ELSE decide(scanAll(info, clients), info, thr)

\* the locals of the call in progress
Locals ==
    Scan(best_score, best_match, best_client_id, best_client_name,
         match_reasons, alternative_matches, comparisons, pc = "scored",
         compared)

setLocals(st) ==
    /\ best_score' = st.score
    /\ best_match' = st.match
    /\ best_client_id' = st.id
    /\ best_client_name' = st.name
    /\ match_reasons' = st.reasons
    /\ alternative_matches' = st.alts
    /\ comparisons' = st.cmp
    /\ compared' = st.log

\* the empty registry is not returned early: the scan runs over no client
EmptyRegistry_Fallthrough ==
    /\ pc = "start"
    /\ existing_clients = <<>>
    /\ setLocals(ScanStart)
    /\ normalized_primary' = _normalize_name(client_info.primary_name)
    /\ idx' = 1
    /\ pc' = "scored"
    /\ UNCHANGED <<client_info, existing_clients, threshold, result>>
    /\ UNCHANGED normVars
    /\ UNCHANGED mapperVars
    /\ UNCHANGED cycleVars

\* lines 121-129
EmptyRegistry ==
    /\ pc = "start"
    /\ existing_clients = <<>>
    /\ result' = emptyDecision(client_info)
    /\ pc' = "done"
    /\ UNCHANGED <<client_info, existing_clients, threshold, idx,
                   normalized_primary, best_match, best_score, best_client_id,
                   best_client_name, match_reasons, alternative_matches,
                   comparisons, compared>>
    /\ UNCHANGED normVars
    /\ UNCHANGED mapperVars
    /\ UNCHANGED cycleVars

\* the list of names to check is built in place, in the candidate's own list
\* of alternative names
StartScan_InPlace ==
    /\ pc = "start"
    /\ existing_clients # <<>>
    /\ setLocals(ScanStart)
    /\ normalized_primary' = _normalize_name(client_info.primary_name)
    /\ idx' = 1
    /\ pc' = "loop"
    /\ client_info' = [client_info EXCEPT !.alternative_names =
                                             <<client_info.primary_name>> \o @]
    /\ UNCHANGED <<existing_clients, threshold, result>>
    /\ UNCHANGED normVars
    /\ UNCHANGED mapperVars
    /\ UNCHANGED cycleVars

\* lines 131-147
StartScan ==
    /\ pc = "start"
    /\ existing_clients # <<>>
    /\ setLocals(ScanStart)
    /\ normalized_primary' = _normalize_name(client_info.primary_name)
    /\ idx' = 1
    /\ pc' = "loop"
    /\ UNCHANGED <<client_info, existing_clients, threshold, result>>
    /\ UNCHANGED normVars
    /\ UNCHANGED mapperVars
    /\ UNCHANGED cycleVars

\* the exact match without the break: the scan goes on
ExactMatch_NoBreak ==
    /\ pc = "loop"
    /\ isExact(normalized_primary, existing_clients[idx])
    /\ setLocals(exactStep(Locals, idx, existing_clients[idx]))
    /\ idx' = idx + 1
    /\ pc' = IF idx = Len(existing_clients) THEN "scored" ELSE "loop"
    /\ UNCHANGED <<client_info, existing_clients, threshold,
                   normalized_primary, result>>
    /\ UNCHANGED normVars
    /\ UNCHANGED mapperVars
    /\ UNCHANGED cycleVars

\* lines 150-165: the exact match and its break
ExactMatch ==
    /\ pc = "loop"
    /\ isExact(normalized_primary, existing_clients[idx])
    /\ setLocals(exactStep(Locals, idx, existing_clients[idx]))
    /\ pc' = "scored"
    /\ UNCHANGED <<client_info, existing_clients, threshold, idx,
                   normalized_primary, result>>
    /\ UNCHANGED normVars
    /\ UNCHANGED mapperVars
    /\ UNCHANGED cycleVars

\* lines 150-157 and 167-203: one client that is not an exact match
FuzzyClient ==
    /\ pc = "loop"
    /\ ~isExact(normalized_primary, existing_clients[idx])
    /\ setLocals(fuzzyStep(Locals, idx, existing_clients[idx],
                           allNames(client_info)))
    /\ idx' = idx + 1
    /\ pc' = IF idx = Len(existing_clients) THEN "scored" ELSE "loop"
    /\ UNCHANGED <<client_info, existing_clients, threshold,
                   normalized_primary, result>>
    /\ UNCHANGED normVars
    /\ UNCHANGED mapperVars
    /\ UNCHANGED cycleVars

\* lines 205-220
ReturnMatch ==
    /\ pc = "scored"
    /\ accepted(best_score, threshold)
    /\ result' = matchDecision(Locals)
    /\ pc' = "done"
    /\ UNCHANGED <<client_info, existing_clients, threshold, idx,
                   normalized_primary, best_match, best_score, best_client_id,
                   best_client_name, match_reasons, alternative_matches,
                   comparisons, compared>>
    /\ UNCHANGED normVars
    /\ UNCHANGED mapperVars
    /\ UNCHANGED cycleVars

\* lines 205-208 and 221-234
ReturnCreateNew ==
    /\ pc = "scored"
    /\ ~accepted(best_score, threshold)
    /\ result' = createDecision(Locals, client_info)
    /\ pc' = "done"
    /\ UNCHANGED <<client_info, existing_clients, threshold, idx,
                   normalized_primary, best_match, best_score, best_client_id,
                   best_client_name, match_reasons, alternative_matches,
                   comparisons, compared>>
    /\ UNCHANGED normVars
    /\ UNCHANGED mapperVars
    /\ UNCHANGED cycleVars

Next ==
    \/ EmptyRegistry
    \/ StartScan
    \/ ExactMatch
    \/ FuzzyClient
    \/ ReturnMatch
    \/ ReturnCreateNew

(***************************************************************************)
(* The inputs of the calls.                                                *)
(***************************************************************************)
MaxClients == 3        \* longest registry over ClientPool
MaxLongClients == 8    \* longest registry over LongPool

Thresholds == {0, 75, 100}

Candidate(primary, alts) ==
    [primary_name |-> primary, alternative_names |-> alts]

PoolClient(name, aliases) ==
    [client_name |-> name, client_aliases |-> aliases]

AcmeCorporation == <<"A", "c", "m", "e", " ", "C", "o", "r", "p", "o", "r", "a", "t", "i", "o", "n">>
AcmeCorp == <<"A", "c", "m", "e", " ", "C", "o", "r", "p">>
AcmeIncDot == <<"A", "c", "m", "e", " ", "I", "n", "c", ".">>
ACMEINC == <<"A", "C", "M", "E", " ", "I", "N", "C">>
AcmeLLC == <<"A", "c", "m", "e", " ", "L", "L", "C">>
Globex == <<"G", "l", "o", "b", "e", "x">>
Initech == <<"I", "n", "i", "t", "e", "c", "h">>
Dunham == <<"D", "u", "n", "h", "a", "m">>

Candidates ==
    { Candidate(AcmeCorporation, <<>>),
      Candidate(Globex, <<>>),
      Candidate(AcmeIncDot, <<Dunham>>),
      Candidate(ACMEINC, <<>>) }

ClientPool ==
    { PoolClient(AcmeCorp, <<>>),
      PoolClient(AcmeLLC, <<>>),
      PoolClient(Initech, <<Globex>>),
      PoolClient(Globex, <<>>),
      PoolClient(Dunham, <<>>),
      PoolClient(Initech, <<>>) }

LongCandidates ==
    { Candidate(AcmeIncDot, <<>>) }

LongPool ==
    { PoolClient(AcmeCorp, <<>>),
      PoolClient(ACMEINC, <<>>) }

LongThresholds == {50, 75}

\* a near miss: a client name one letter short of the primary name (score 97)
\* beside a client that has the primary name as an alias
GlobexHoldings == <<"G", "l", "o", "b", "e", "x", " ", "H", "o", "l", "d", "i", "n", "g", "s">>
GlobexHolding == <<"G", "l", "o", "b", "e", "x", " ", "H", "o", "l", "d", "i", "n", "g">>

NearCandidates ==
    { Candidate(GlobexHoldings, <<>>),
      Candidate(GlobexHoldings, <<Dunham>>) }

NearPool ==
    { PoolClient(GlobexHolding, <<>>),
      PoolClient(Initech, <<GlobexHoldings>>) }

NearThresholds == {75, 100}

\* longer registries in which clients stand before and after an exact match
MaxExitClients == 4

ExitCandidates ==
    { Candidate(AcmeCorporation, <<>>) }

ExitPool ==
    { PoolClient(AcmeCorp, <<>>),
      PoolClient(Dunham, <<>>),
      PoolClient(AcmeLLC, <<>>) }

ExitThresholds == {75}

\* ERPNextAPI.get_clients: one record per row, client_id unique (the row's
\* position numbers its id)
Registry(rows) ==
    [i \in 1..Len(rows) |->
        [client_id |-> "C" \o ToString(i),
         client_name |-> rows[i].client_name,
         client_aliases |-> rows[i].client_aliases]]

Registries(pool, maxLen) ==
    { Registry(rows) : rows \in UNION { [1..n -> pool] : n \in 0..maxLen } }

\* before the return there is no dict
NoResult ==
    [pending |-> TRUE]

NormIdle ==
    /\ name_in = <<>>
    /\ name_var = <<>>
    /\ norm_once = NoName
    /\ norm_var = NoName
    /\ norm_twice = NoName
    /\ npc = "idle"

\* None where a timestamp is expected, and where the list of clients is
NoTime == -1

NoCache == <<>>

\* lines 34-36: a mapper that has mapped nothing yet
MapperNew ==
    /\ client_cache = NoCache
    /\ client_cache_timestamp = NoTime
    /\ api_calls = 0
    /\ saved = <<>>
    /\ calls = 0
    /\ argument = NoResult
    /\ mapped = NoResult
    /\ got_clients = <<>>
    /\ fetch_ok = "none"

MapperIdle ==
    /\ MapperNew
    /\ current_time = 0
    /\ erp_clients = <<>>

\* ALERT_PERIODS, default "90,60,30,14,7" (config.py 43)
DefaultPeriods == <<90, 60, 30, 14, 7>>

\* the files of the monitored Drive folder, in the order files().list()
\* returns them
DriveFiles == <<"D1", "D2", "D3">>

Docs ==
    {DriveFiles[i] : i \in 1..Len(DriveFiles)}

\* no record where generate_alerts expects one
NoRecord == [pending |-> TRUE]

\* nothing has been downloaded, recorded or alerted yet
CycleNew ==
    /\ erpnext_record = NoRecord
    /\ alerts = <<>>
    /\ alert_calls = 0
    /\ error_alerts = <<>>
    /\ contracts = <<>>
    /\ processed_file = {}
    /\ processed_ids = {}
    /\ new_documents = <<>>
    /\ doc_idx = 0
    /\ cycle_pc = "idle"
    /\ cycles = 0
    /\ faults = 0
    /\ failed = {}
    /\ marked = {}
    /\ outcome = [doc \in Docs |-> "none"]
    /\ last = NoResult
    /\ expiration_checks = 0

CycleIdle ==
    /\ CycleNew
    /\ alert_periods = DefaultPeriods
    /\ today = 0

MatchStart ==
    /\ pc = "start"
    /\ idx = 0
    /\ normalized_primary = NoName
    /\ best_match = NoClient
    /\ best_score = 0
    /\ best_client_id = None
    /\ best_client_name = NoName
    /\ match_reasons = <<>>
    /\ alternative_matches = <<>>
    /\ comparisons = 0
    /\ compared = <<>>
    /\ result = NoResult

Init ==
    /\ \/ /\ client_info \in Candidates
          /\ existing_clients \in Registries(ClientPool, MaxClients)
          /\ threshold \in Thresholds
       \/ /\ client_info \in LongCandidates
          /\ existing_clients \in Registries(LongPool, MaxLongClients)
          /\ threshold \in LongThresholds
       \/ /\ client_info \in NearCandidates
          /\ existing_clients \in Registries(NearPool, MaxClients)
          /\ threshold \in NearThresholds
       \/ /\ client_info \in ExitCandidates
          /\ existing_clients \in Registries(ExitPool, MaxExitClients)
          /\ threshold \in ExitThresholds
    /\ MatchStart
    /\ NormIdle
    /\ MapperIdle
    /\ CycleIdle

Spec ==
    Init /\ [][Next]_vars

(***************************************************************************)
(* Calls of _normalize_name on a name, on a variant of it and on its own   *)
(* result.                                                                 *)
(***************************************************************************)
upperChar(c) ==
    IF \E k \in 1..26 : LowerLetters[k] = c
    THEN UpperLetters[CHOOSE k \in 1..26 : LowerLetters[k] = c]
    ELSE c

upper(s) ==
    [i \in 1..Len(s) |-> upperChar(s[i])]

dropPeriods(s) ==
    replace(s, <<".">>, <<>>)

\* names that differ from x only in letter case and in periods
Variants(x) ==
    {x, upper(x), lower(x), dropPeriods(x), upper(dropPeriods(x))}

NormNames ==
    { <<"A", "c", "m", "e", " ", "C", "o", "r", "p", "o", "r", "a", "t", "i", "o", "n">>,
      <<"A", "c", "m", "e", " ", "C", "o", "r", "p">>,
      <<"A", "c", "m", "e", " ", "C", "o", "r", "p", ".">>,
      <<"A", "c", "m", "e", " ", "I", "n", "c", ".">>,
      <<"A", "c", "m", "e", ",", " ", "I", "n", "c", ".">>,
      <<"A", "c", "m", "e", " ", "L", ".", "L", ".", "C">>,
      <<"A", "c", "m", "e", " ", "L", ".", "L", ".", "C", ".">>,
      <<"A", "c", "m", "e", " ", "L", "L", "C">>,
      <<"A", "c", "m", "e", " ", "L", "t", "d", ".">>,
      <<"A", "c", "m", "e", " ", "C", "o", ".">>,
      <<"A", "c", "m", "e", " ", "G", "m", "b", "H">>,
      <<"A", "c", "m", "e", " ", "L", "i", "m", "i", "t", "e", "d">>,
      <<"A", "c", "m", "e", " ", "C", "o", "m", "p", "a", "n", "y">>,
      <<"C", "o", "m", "p", "a", "n", "y", " ", "H", "o", "u", "s", "e">>,
      <<"G", "l", "o", "b", "e", "x">>,
      <<"I", "n", "i", "t", "e", "c", "h">>,
      <<" ", "A", "c", "m", "e", " ">> }

\* no stepwise call of _match_client is under way
MatchIdle ==
    /\ client_info = Candidate(<<>>, <<>>)
    /\ existing_clients = <<>>
    /\ pc = "idle"
    /\ idx = 0
    /\ normalized_primary = NoName
    /\ best_match = NoClient
    /\ best_score = 0
    /\ best_client_id = None
    /\ best_client_name = NoName
    /\ match_reasons = <<>>
    /\ alternative_matches = <<>>
    /\ comparisons = 0
    /\ compared = <<>>
    /\ result = NoResult

InitNorm ==
    /\ name_in \in NormNames
    /\ name_var \in Variants(name_in)
    /\ norm_once = NoName
    /\ norm_var = NoName
    /\ norm_twice = NoName
    /\ npc = "in"
    /\ threshold = 75
    /\ MatchIdle
    /\ MapperIdle
    /\ CycleIdle

\* _normalize_name applied to the name and to its variant
Normalize ==
    /\ npc = "in"
    /\ norm_once' = _normalize_name(name_in)
    /\ norm_var' = _normalize_name(name_var)
    /\ npc' = "once"
    /\ UNCHANGED <<name_in, name_var, norm_twice>>
    /\ UNCHANGED matchVars
    /\ UNCHANGED mapperVars
    /\ UNCHANGED cycleVars

\* _normalize_name applied to its own result
Renormalize ==
    /\ npc = "once"
    /\ norm_twice' = _normalize_name(norm_once)
    /\ npc' = "twice"
    /\ UNCHANGED <<name_in, name_var, norm_once, norm_var>>
    /\ UNCHANGED matchVars
    /\ UNCHANGED mapperVars
    /\ UNCHANGED cycleVars

NextNorm ==
    \/ Normalize
    \/ Renormalize

SpecNorm ==
    InitNorm /\ [][NextNorm]_vars

(***************************************************************************)
(* Calls of map_client on one ClientMapper, as time passes.                *)
(***************************************************************************)
cache_ttl == 3600

\* erpnext_api.get_clients(): the clients, or [] when the request fails
get_clients(clients, ok) ==
    IF ok THEN clients ELSE <<>>

\* a snapshot exactly cache_ttl seconds old is still served
_get_clients_Inclusive(cache, ts, now, response) ==
    IF cache # NoCache /\ ts # NoTime /\ now - ts <= cache_ttl
    THEN [clients |-> cache[1], cache |-> cache, ts |-> ts, fetched |-> FALSE]
    ELSE [clients |-> response, cache |-> <<response>>, ts |-> now,
          fetched |-> TRUE]

\* an empty snapshot counts as no snapshot (if self.client_cache: ...)
_get_clients_RetryEmpty(cache, ts, now, response) ==
    IF cache # NoCache /\ cache # <<<<>>>> /\ ts # NoTime
       /\ now - ts < cache_ttl
    THEN [clients |-> cache[1], cache |-> cache, ts |-> ts, fetched |-> FALSE]
    ELSE [clients |-> response, cache |-> <<response>>, ts |-> now,
          fetched |-> TRUE]

\* _get_clients with the cache in (cache, ts): the list it returns, the cache
\* it leaves and whether it called the API; response is what the API returns
_get_clients(cache, ts, now, response) ==
    IF cache # NoCache /\ ts # NoTime /\ now - ts < cache_ttl
    THEN [clients |-> cache[1], cache |-> cache, ts |-> ts, fetched |-> FALSE]
    ELSE [clients |-> response, cache |-> <<response>>, ts |-> now,
          fetched |-> TRUE]

\* client_info['primary_name'] raises KeyError
lacksPrimaryName(info) ==
    "primary_name" \notin DOMAIN info

Raised ==
    [raised |-> TRUE]

Returned(mapping_result) ==
    [raised |-> FALSE, decision |-> mapping_result]

\* how the last request to ERPNext ended, after a call of _get_clients
fetched(got, ok, before) ==
    IF got.fetched THEN (IF ok THEN "ok" ELSE "failed") ELSE before

MaxCalls == 3

\* the KeyError of a candidate without primary_name comes only at line 254,
\* after _match_client has run
map_client_LateKeyError(info, ok, saveOk) ==
    /\ calls < MaxCalls
    /\ calls' = calls + 1
    /\ argument' = info
    /\ LET got == _get_clients(client_cache, client_cache_timestamp,
                               current_time, get_clients(erp_clients, ok))
           mapping_result == _match_client(info, got.clients, threshold)
       IN  /\ client_cache' = got.cache
           /\ client_cache_timestamp' = got.ts
           /\ api_calls' = api_calls + (IF got.fetched THEN 1 ELSE 0)
           /\ got_clients' = got.clients
           /\ fetch_ok' = fetched(got, ok, fetch_ok)
           /\ IF lacksPrimaryName(info)
              THEN /\ mapped' = Raised
                   /\ saved' = saved
              ELSE /\ saved' = IF saveOk THEN Append(saved, mapping_result)
                                         ELSE saved
                   /\ mapped' = Returned(mapping_result)
    /\ UNCHANGED <<current_time, erp_clients>>
    /\ UNCHANGED matchVars
    /\ UNCHANGED normVars
    /\ UNCHANGED cycleVars

\* map_client(client_info), lines 236-271; ok: the request to ERPNext
\* succeeds, saveOk: the result file can be written
map_client(info, ok, saveOk) ==
    /\ calls < MaxCalls
    /\ calls' = calls + 1
    /\ argument' = info
    /\ IF lacksPrimaryName(info)
       THEN /\ mapped' = Raised
            /\ UNCHANGED <<client_cache, client_cache_timestamp, api_calls,
                           saved, got_clients, fetch_ok>>
       ELSE LET got == _get_clients(client_cache, client_cache_timestamp,
                                    current_time, get_clients(erp_clients, ok))
                mapping_result == _match_client(info, got.clients, threshold)
            IN  /\ client_cache' = got.cache
                /\ client_cache_timestamp' = got.ts
                /\ api_calls' = api_calls + (IF got.fetched THEN 1 ELSE 0)
                /\ got_clients' = got.clients
                /\ fetch_ok' = fetched(got, ok, fetch_ok)
                /\ saved' = IF saveOk THEN Append(saved, mapping_result)
                                      ELSE saved
                /\ mapped' = Returned(mapping_result)
    /\ UNCHANGED <<current_time, erp_clients>>
    /\ UNCHANGED matchVars
    /\ UNCHANGED normVars
    /\ UNCHANGED cycleVars

ClockStep == 1800

MaxClock == 7200

\* time passes between two calls
Tick ==
    /\ current_time < MaxClock
    /\ current_time' = current_time + ClockStep
    /\ UNCHANGED <<client_cache, client_cache_timestamp, erp_clients,
                   api_calls, saved, calls, argument, mapped, got_clients,
                   fetch_ok>>
    /\ UNCHANGED matchVars
    /\ UNCHANGED normVars
    /\ UNCHANGED cycleVars

\* a candidate without the primary_name key
Nameless(alternative_names) ==
    [alternative_names |-> alternative_names]

MapCandidates ==
    {Nameless(<<Globex>>), Candidate(Globex, <<>>),
     Candidate(AcmeCorporation, <<>>)}

MapRegistries ==
    {Registry(<<PoolClient(Globex, <<>>)>>),
     Registry(<<PoolClient(AcmeCorp, <<>>), PoolClient(Dunham, <<>>)>>)}

InitMap ==
    /\ MapperNew
    /\ current_time = 0
    /\ erp_clients \in MapRegistries
    /\ threshold = 75
    /\ MatchIdle
    /\ NormIdle
    /\ CycleIdle

\* the Client records of ERPNext change between two calls
RegistryChanges ==
    /\ erp_clients' \in MapRegistries \ {erp_clients}
    /\ UNCHANGED <<client_cache, client_cache_timestamp, current_time,
                   api_calls, saved, calls, argument, mapped, got_clients,
                   fetch_ok>>
    /\ UNCHANGED matchVars
    /\ UNCHANGED normVars
    /\ UNCHANGED cycleVars

NextMap ==
    \/ \E info \in MapCandidates, ok \in BOOLEAN, saveOk \in BOOLEAN :
          map_client(info, ok, saveOk)
    \/ Tick
    \/ RegistryChanges

SpecMap ==
    InitMap /\ [][NextMap]_vars

(***************************************************************************)
(* The alert system: calls of generate_alerts on one AlertSystem.          *)
(***************************************************************************)
\* an expiration_date: None or '', a string of the form %Y-%m-%d, or a date
\* written in another form; day is the day it names
NoDate ==
    [form |-> "none", day |-> 0]

IsoDate(day) ==
    [form |-> "iso", day |-> day]

OtherDate(day) ==
    [form |-> "other", day |-> day]

\* the dict update_records returns
Record(contract_id, client_id, expiration_date) ==
    [client_id |-> client_id,
     contract_id |-> contract_id,
     document_type |-> "MSA",
     expiration_date |-> expiration_date]

\* lines 106-112
priority(days_until_expiration) ==
    IF days_until_expiration <= 30 THEN "high"
    ELSE IF days_until_expiration <= 60 THEN "medium"
    ELSE "low"

\* the Alert record of one call of generate_expiration_alert; by: the caller
Alert(contract_id, client_id, days_until_expiration, by) ==
    [alert_type |-> "expiration",
     contract_id |-> contract_id,
     client_id |-> client_id,
     days_until_expiration |-> days_until_expiration,
     priority |-> priority(days_until_expiration),
     by |-> by]

\* the iterations of the loop of line 189 whose test of line 190 is true
within(periods, days) ==
    {k \in 1..Len(periods) : days <= periods[k]}

Min(S) ==
    CHOOSE x \in S : \A y \in S : x <= y

\* every period the days are within gets its alert
alerting_NoBreak(periods, days) ==
    within(periods, days)

\* the iterations that call generate_expiration_alert: the break of line 192
\* leaves the loop after the first
alerting(periods, days) ==
    IF within(periods, days) = {} THEN {}
    ELSE {Min(within(periods, days))}

\* generate_alerts(erpnext_record): the Alert records it creates, the number
\* of requests ERPNext refused (_create_alert_record returns None), whether an
\* exception was logged at line 196, and whether one reached the caller;
\* postOk: ERPNext accepts an Alert record
generate_alerts(record, periods, now, postOk) ==
    LET date == record.expiration_date
        days == date.day - now
        n == Cardinality(alerting(periods, days))
    IN  IF date.form = "none"
        THEN [created |-> <<>>, lost |-> 0, logged |-> FALSE, raised |-> FALSE]
        ELSE IF date.form # "iso"
        THEN [created |-> <<>>, lost |-> 0, logged |-> TRUE, raised |-> FALSE]
        ELSE [created |->
                 [i \in 1..(IF postOk THEN n ELSE 0) |->
                     Alert(record.contract_id, record.client_id, days,
                           "generate_alerts")],
              lost |-> IF postOk THEN 0 ELSE n,
              logged |-> FALSE,
              raised |-> FALSE]

MaxAlertCalls == 2

MaxDay == 1

\* one call of generate_alerts
GenerateAlerts(record, postOk) ==
    /\ alert_calls < MaxAlertCalls
    /\ alert_calls' = alert_calls + 1
    /\ erpnext_record' = record
    /\ LET done == generate_alerts(record, alert_periods, today, postOk)
       IN  /\ alerts' = alerts \o done.created
           /\ last' = [op |-> "generate_alerts",
                       created |-> Len(done.created),
                       lost |-> done.lost,
                       logged |-> done.logged,
                       raised |-> done.raised]
    /\ UNCHANGED <<alert_periods, today, error_alerts, contracts,
                   processed_file, processed_ids, new_documents, doc_idx,
                   cycle_pc, cycles, faults, failed, marked, outcome,
                   expiration_checks>>
    /\ UNCHANGED matchVars
    /\ UNCHANGED normVars
    /\ UNCHANGED mapperVars

\* midnight passes between two calls
DayPasses ==
    /\ today < MaxDay
    /\ today' = today + 1
    /\ UNCHANGED <<alert_periods, erpnext_record, alerts, alert_calls,
                   error_alerts, contracts, processed_file, processed_ids,
                   new_documents, doc_idx, cycle_pc, cycles, faults, failed,
                   marked, outcome, last, expiration_checks>>
    /\ UNCHANGED matchVars
    /\ UNCHANGED normVars
    /\ UNCHANGED mapperVars

\* lists of alert periods: the default, ascending, a single one, a repeated
\* one, and one that only an expired contract is within
PeriodLists ==
    {DefaultPeriods, <<7, 14, 30, 60, 90>>, <<30>>, <<30, 30>>, <<0>>}

AlertDates ==
    {NoDate, OtherDate(5)}
       \cup {IsoDate(d) : d \in {-3, 0, 1, 7, 8, 30, 31, 90, 91, 92}}

AlertRecords ==
    {Record("CON-1", "C1", date) : date \in AlertDates}

InitAlerts ==
    /\ CycleNew
    /\ alert_periods \in PeriodLists
    /\ today = 0
    /\ threshold = 75
    /\ MatchIdle
    /\ NormIdle
    /\ MapperIdle

NextAlerts ==
    \/ \E record \in AlertRecords, postOk \in BOOLEAN :
          GenerateAlerts(record, postOk)
    \/ DayPasses

SpecAlerts ==
    InitAlerts /\ [][NextAlerts]_vars

(***************************************************************************)
(* The cycles of process_documents (main.py), one after the other: the     *)
(* start of a cycle, one iteration of its loop per new document, and the   *)
(* check of the expirations that ends it. The cycles are those of one day  *)
(* (main schedules one every 300 seconds), over a folder whose files stay. *)
(***************************************************************************)
\* what process_document extracts from each file: D1 and D2 name the same
\* client, D3 yields a client_info without primary_name
Extraction(doc) ==
    IF doc = "D1"
    THEN [client_info |-> Candidate(Globex, <<>>),
          expiration_date |-> IsoDate(30)]
    ELSE IF doc = "D2"
    THEN [client_info |-> Candidate(Globex, <<>>),
          expiration_date |-> NoDate]
    ELSE [client_info |-> Nameless(<<>>),
          expiration_date |-> NoDate]

\* every monitor starts from the empty set
_load_processed_ids_Empty(file, loadOk) ==
    {}

\* _load_processed_ids: the pickled set, or set() when reading it fails
_load_processed_ids(file, loadOk) ==
    IF loadOk THEN file ELSE {}

\* get_new_documents: the files whose id is not in processed_ids, or [] when
\* the request to Drive fails
get_new_documents(files, processed, listOk) ==
    IF listOk
    THEN SelectSeq(files, LAMBDA doc : doc \notin processed)
    ELSE <<>>

\* _save_processed_ids: the file after the write, which may fail
_save_processed_ids(file, processed, saveOk) ==
    IF saveOk THEN processed ELSE file

\* create_client: the Client record ERPNext gets
createdClient(clients, info) ==
    [client_id |-> "C" \o ToString(Len(clients) + 1),
     client_name |-> info.primary_name,
     client_aliases |-> info.alternative_names]

\* create_contract: the ContractCustom record ERPNext gets
createdContract(held, client_id, doc) ==
    [contract_id |-> "CON-" \o ToString(Len(held) + 1),
     client_id |-> client_id,
     contract_name |-> doc,
     expiration_date |-> Extraction(doc).expiration_date,
     status |-> "Active"]

\* the operations of one iteration that can fail
DocFaults ==
    {"download", "extract", "fetch", "client", "contract", "post", "save"}

\* an abandoned iteration never marks the document
Abandoned_Unmarked(stage, fs, mark) ==
    [stage |-> stage, met |-> fs \ {"save"}, mark |-> FALSE, error |-> TRUE,
     clients |-> erp_clients, contracts |-> contracts,
     got |-> [clients |-> got_clients, cache |-> client_cache,
              ts |-> client_cache_timestamp, fetched |-> FALSE],
     created_client |-> FALSE, alerting |-> FALSE,
     record |-> erpnext_record,
     done |-> [created |-> <<>>, lost |-> 0, logged |-> FALSE,
               raised |-> FALSE]]

\* an abandoned iteration sends no error alert
Abandoned_Silent(stage, fs, mark) ==
    [stage |-> stage, met |-> fs, mark |-> mark, error |-> FALSE,
     clients |-> erp_clients, contracts |-> contracts,
     got |-> [clients |-> got_clients, cache |-> client_cache,
              ts |-> client_cache_timestamp, fetched |-> FALSE],
     created_client |-> FALSE, alerting |-> FALSE,
     record |-> erpnext_record,
     done |-> [created |-> <<>>, lost |-> 0, logged |-> FALSE,
               raised |-> FALSE]]

\* an abandoned iteration always marks the document
Abandoned_Marked(stage, fs, mark) ==
    [stage |-> stage, met |-> fs, mark |-> TRUE, error |-> TRUE,
     clients |-> erp_clients, contracts |-> contracts,
     got |-> [clients |-> got_clients, cache |-> client_cache,
              ts |-> client_cache_timestamp, fetched |-> FALSE],
     created_client |-> FALSE, alerting |-> FALSE,
     record |-> erpnext_record,
     done |-> [created |-> <<>>, lost |-> 0, logged |-> FALSE,
               raised |-> FALSE]]

\* an iteration that ended before the end of update_records
Abandoned(stage, fs, mark) ==
    [stage |-> stage, met |-> fs, mark |-> mark, error |-> TRUE,
     clients |-> erp_clients, contracts |-> contracts,
     got |-> [clients |-> got_clients, cache |-> client_cache,
              ts |-> client_cache_timestamp, fetched |-> FALSE],
     created_client |-> FALSE, alerting |-> FALSE,
     record |-> erpnext_record,
     done |-> [created |-> <<>>, lost |-> 0, logged |-> FALSE,
               raised |-> FALSE]]

\* lines 85-92: an iteration that went through generate_alerts, which
\* answered done
alerted(fs, got, met, clients, held, isNew, record, done) ==
    [stage |-> "done",
     met |-> met \cup (IF done.lost > 0 THEN {"post"} ELSE {}),
     mark |-> TRUE, error |-> FALSE,
     clients |-> clients, contracts |-> held, got |-> got,
     created_client |-> isNew, alerting |-> TRUE,
     record |-> record, done |-> done]

\* lines 78-92 for doc, once _get_clients has answered got and map_client
\* has returned a decision with matched_client_id matched
updated(doc, fs, got, matched) ==
    LET info == Extraction(doc).client_info
        saves == fs \cap {"save"}
        fetches == IF got.fetched THEN fs \cap {"fetch"} ELSE {}
        isNew == matched = None
        clients1 == IF isNew /\ "client" \notin fs
                    THEN Append(erp_clients, createdClient(erp_clients, info))
                    ELSE erp_clients
        client_id == IF isNew THEN clients1[Len(clients1)].client_id
                     ELSE matched
        contract == createdContract(contracts, client_id, doc)
        record == Record(contract.contract_id, client_id,
                         contract.expiration_date)
    IN  IF isNew /\ "client" \in fs
        THEN [Abandoned("update_records",
                        fetches \cup {"client"} \cup saves, TRUE)
                 EXCEPT !.got = got]
        ELSE IF "contract" \in fs
        THEN [Abandoned("update_records",
                        fetches \cup {"contract"} \cup saves, TRUE)
                 EXCEPT !.got = got, !.clients = clients1,
                        !.created_client = isNew]
        ELSE alerted(fs, got, fetches \cup saves, clients1,
                     Append(contracts, contract), isNew, record,
                     generate_alerts(record, alert_periods, today,
                                     "post" \notin fs))

\* line 75 for doc, once _get_clients has answered got
mapClient(doc, fs, got) ==
    updated(doc, fs, got,
            _match_client(Extraction(doc).client_info, got.clients,
                          threshold).matched_client_id)

\* one iteration of the loop of lines 59-99 for doc, when the operations in
\* fs fail: how far it got, the failures it met, whether it marked the
\* document and sent an error alert, and what ERPNext holds after it
iteration(doc, fs) ==
    IF "download" \in fs
    THEN Abandoned("download", {"download"}, FALSE)
    ELSE IF "extract" \in fs
    THEN Abandoned("extract", {"extract"} \cup (fs \cap {"save"}), TRUE)
    ELSE IF lacksPrimaryName(Extraction(doc).client_info)
    THEN Abandoned("map_client", {}, FALSE)
    ELSE mapClient(doc, fs,
                   _get_clients(client_cache, client_cache_timestamp,
                                current_time,
                                get_clients(erp_clients,
                                            "fetch" \notin fs)))

MaxCycles == 2

MaxFaults == 2

\* lines 39-56: the components are built, the monitor loads the id file and
\* lists the folder; with no new document the cycle returns at once
StartCycle(loadOk, listOk) ==
    /\ cycle_pc = "idle"
    /\ cycles < MaxCycles
    /\ loadOk \/ processed_file # {}
    /\ LET misses == (IF loadOk THEN 0 ELSE 1) + (IF listOk THEN 0 ELSE 1)
           loaded == _load_processed_ids(processed_file, loadOk)
           found == get_new_documents(DriveFiles, loaded, listOk)
       IN  /\ faults + misses <= MaxFaults
           /\ faults' = faults + misses
           /\ failed' = failed \cup (IF loadOk THEN {} ELSE {"load"})
                                \cup (IF listOk THEN {} ELSE {"list"})
           /\ processed_ids' = loaded
           /\ new_documents' = found
           /\ cycle_pc' = IF found = <<>> THEN "idle" ELSE "docs"
           /\ doc_idx' = IF found = <<>> THEN 0 ELSE 1
           /\ last' = [op |-> "start", loaded |-> loadOk, listed |-> listOk]
    /\ cycles' = cycles + 1
    /\ client_cache' = NoCache
    /\ client_cache_timestamp' = NoTime
    /\ UNCHANGED <<alert_periods, today, erpnext_record, alerts, alert_calls,
                   error_alerts, contracts, processed_file, marked, outcome,
                   expiration_checks>>
    /\ UNCHANGED <<current_time, erp_clients, api_calls, saved, calls,
                   argument, mapped, got_clients, fetch_ok>>
    /\ UNCHANGED matchVars
    /\ UNCHANGED normVars

\* what an iteration that ended as it leaves behind
Iterated(doc, fs, it, ids) ==
    /\ it.met = fs
    /\ faults' = faults + Cardinality(fs)
    /\ failed' = failed \cup fs
    /\ processed_ids' = ids
    /\ processed_file' =
          IF it.mark
          THEN _save_processed_ids(processed_file, ids, "save" \notin fs)
          ELSE processed_file
    /\ marked' = IF it.mark THEN marked \cup {doc} ELSE marked
    /\ outcome' = [outcome EXCEPT ![doc] = it.stage]
    /\ error_alerts' = IF it.error THEN Append(error_alerts, doc)
                                   ELSE error_alerts
    /\ erp_clients' = it.clients
    /\ contracts' = it.contracts
    /\ client_cache' = it.got.cache
    /\ client_cache_timestamp' = it.got.ts
    /\ got_clients' = it.got.clients
    /\ api_calls' = api_calls + (IF it.got.fetched THEN 1 ELSE 0)
    /\ fetch_ok' = fetched(it.got, "fetch" \notin fs, fetch_ok)
    /\ erpnext_record' = it.record
    /\ alert_calls' = alert_calls + (IF it.alerting THEN 1 ELSE 0)
    /\ alerts' = alerts \o it.done.created
    /\ last' = [op |-> "document", doc |-> doc, stage |-> it.stage,
                created_client |-> it.created_client, failed |-> fs]

\* mark_as_processed(doc), when the iteration reaches it
marking(doc, it) ==
    IF it.mark THEN processed_ids \cup {doc} ELSE processed_ids

\* lines 59-99: one iteration of the loop, for the document at doc_idx
ProcessDocument(fs) ==
    /\ cycle_pc = "docs"
    /\ faults + Cardinality(fs) <= MaxFaults
    /\ \E it \in {iteration(new_documents[doc_idx], fs)} :
          Iterated(new_documents[doc_idx], fs, it,
                   marking(new_documents[doc_idx], it))
    /\ doc_idx' = doc_idx + 1
    /\ cycle_pc' = IF doc_idx = Len(new_documents) THEN "expirations"
                                                    ELSE "docs"
    /\ UNCHANGED <<alert_periods, today, new_documents, cycles,
                   expiration_checks>>
    /\ UNCHANGED <<current_time, saved, calls, argument, mapped>>
    /\ UNCHANGED matchVars
    /\ UNCHANGED normVars

\* get_expiring_contracts(days_ahead): the active contracts that expire from
\* today to days_ahead days from now, or [] when the request fails
get_expiring_contracts(held, now, days_ahead, ok) ==
    IF ok
    THEN SelectSeq(held, LAMBDA c :
            /\ c.expiration_date.form # "none"
            /\ c.expiration_date.day >= now
            /\ c.expiration_date.day <= now + days_ahead)
    ELSE <<>>

\* lines 211-214: the contracts that expire exactly days_ahead days from now
expiringExactly(held, now, days_ahead, ok) ==
    SelectSeq(get_expiring_contracts(held, now, days_ahead, ok),
              LAMBDA c : c.expiration_date.day - now = days_ahead)

RECURSIVE dueFrom(_, _, _, _, _)
\* the calls of generate_expiration_alert of check_contract_expirations from
\* the k-th alert period on; bad: the periods whose request fails
dueFrom(k, periods, held, now, bad) ==
    IF k > Len(periods) THEN <<>>
    ELSE LET found == expiringExactly(held, now, periods[k], k \notin bad)
         IN  [i \in 1..Len(found) |->
                 Alert(found[i].contract_id, found[i].client_id, periods[k],
                       "check_contract_expirations")]
             \o dueFrom(k + 1, periods, held, now, bad)

\* the elements of a sequence at the positions outside lost
Kept(seq, lost) ==
    LET keep == {i \in 1..Len(seq) : i \notin lost}
        RECURSIVE pick(_)
        pick(i) == IF i > Len(seq) THEN <<>>
                   ELSE (IF i \in keep THEN <<seq[i]>> ELSE <<>>)
                        \o pick(i + 1)
    IN  pick(1)

\* lines 101-105: check_contract_expirations ends the cycle; bad: the alert
\* periods whose request for the contracts fails (counted when a contract
\* goes unnoticed for it), lost: the alerts ERPNext refuses
CheckExpirations(bad, lost) ==
    /\ cycle_pc = "expirations"
    /\ LET due == dueFrom(1, alert_periods, contracts, today, bad)
           all == dueFrom(1, alert_periods, contracts, today, {})
       IN  /\ lost \subseteq 1..Len(due)
           /\ Len(due) = Len(all) => bad = {}
           /\ faults + Cardinality(bad) + Cardinality(lost) <= MaxFaults
           /\ faults' = faults + Cardinality(bad) + Cardinality(lost)
           /\ failed' = failed \cup (IF bad = {} THEN {} ELSE {"expiring"})
                                \cup (IF lost = {} THEN {} ELSE {"post"})
           /\ alerts' = alerts \o Kept(due, lost)
           /\ last' = [op |-> "check_contract_expirations",
                       created |-> Len(due) - Cardinality(lost)]
    /\ expiration_checks' = expiration_checks + 1
    /\ cycle_pc' = "idle"
    /\ doc_idx' = 0
    /\ UNCHANGED <<alert_periods, today, erpnext_record, alert_calls,
                   error_alerts, contracts, processed_file, processed_ids,
                   new_documents, cycles, marked, outcome>>
    /\ UNCHANGED mapperVars
    /\ UNCHANGED matchVars
    /\ UNCHANGED normVars

\* what ERPNext holds before the first cycle: no client, or Globex
CycleRegistries ==
    {<<>>, Registry(<<PoolClient(Globex, <<>>)>>)}

InitCycle ==
    /\ CycleIdle
    /\ MapperNew
    /\ current_time = 0
    /\ erp_clients \in CycleRegistries
    /\ threshold = 75
    /\ MatchIdle
    /\ NormIdle

NextCycle ==
    \/ \E loadOk \in BOOLEAN, listOk \in BOOLEAN : StartCycle(loadOk, listOk)
    \/ \E fs \in SUBSET DocFaults : ProcessDocument(fs)
    \/ \E bad \in SUBSET (1..Len(alert_periods)), lost \in SUBSET (1..MaxCycles) :
          CheckExpirations(bad, lost)

SpecCycle ==
    InitCycle /\ [][NextCycle]_vars

(***************************************************************************)
(* Properties of _match_client and _normalize_name.                        *)
(***************************************************************************)
\* the two shapes of the returned dict: the match of lines 210-220 carries
\* no recommendation, the other two carry CREATE_NEW_CLIENT
UseMatch(d) ==
    "recommendation" \notin DOMAIN d

CreateNew(d) ==
    /\ "recommendation" \in DOMAIN d
    /\ d.recommendation = "CREATE_NEW_CLIENT"

NormPrimary ==
    _normalize_name(client_info.primary_name)

\* the positions of the clients whose name normalizes like the primary name
ExactClients ==
    LET normPrimary == NormPrimary
    IN  { i \in 1..Len(existing_clients) :
            _normalize_name(existing_clients[i].client_name) = normPrimary }

FirstExact ==
    LET exact == ExactClients
    IN  CHOOSE i \in exact : \A k \in exact : i <= k

\* C1: when some client's name normalizes to the normalized primary name, the
\* call returns a USE_MATCH decision with confidence 1.0 whose client is the
\* first such client in registry order, whatever comes after it.
C1_ExactFirstWins ==
    pc = "done" =>
        LET exact == ExactClients
            first == CHOOSE i \in exact : \A k \in exact : i <= k
        IN  exact # {} =>
                /\ UseMatch(result)
                /\ result.confidence_score = 100
                /\ result.matched_client_id = existing_clients[first].client_id
                /\ result.matched_client_name =
                      existing_clients[first].client_name

\* an exact match that is not the first client and has an exact duplicate
\* after it
C1_Witness ==
    /\ pc = "done"
    /\ Cardinality(ExactClients) >= 2
    /\ FirstExact > 1
    /\ result.matched_client_id = existing_clients[FirstExact].client_id

\* C2: on an empty registry the call returns CREATE_NEW_CLIENT with confidence
\* 0.0 and no matched client id, for every candidate and threshold, and no
\* comparison is made.
C2_EmptyRegistry ==
    (pc = "done" /\ existing_clients = <<>>) =>
        /\ CreateNew(result)
        /\ result.confidence_score = 0
        /\ result.matched_client_id = None
        /\ comparisons = 0

\* the empty registry at the threshold every score clears
C2_Witness ==
    /\ pc = "done"
    /\ existing_clients = <<>>
    /\ threshold = 0
    /\ CreateNew(result)

\* C3: a USE_MATCH decision has a matched client id and a confidence that is
\* at least the threshold; a CREATE_NEW_CLIENT decision has no matched client
\* id; for every candidate, registry and threshold.
C3_DecisionInvariant ==
    pc = "done" =>
        /\ UseMatch(result) =>
              /\ result.matched_client_id # None
              /\ result.confidence_score >= threshold
        /\ CreateNew(result) => result.matched_client_id = None

\* C4: _normalize_name is idempotent.
C4_Idempotent ==
    npc = "twice" => norm_twice = norm_once

\* C5: names that differ only in letter case and in the periods of the legal
\* suffix normalize to the same string ("Acme Inc." and "ACME INC").
C5_CaseAndPeriodInsensitive ==
    npc # "in" => norm_var = norm_once

AllThresholds ==
    Thresholds \cup LongThresholds

\* the decision the call returns for the same candidate and registry at
\* threshold t2, st being the scan of that registry (the scan does not read
\* the threshold: its locals are those of the finished call)
DecisionAt(st, t2) ==
    IF existing_clients = <<>> THEN emptyDecision(client_info)
    ELSE decide(st, client_info, t2)

\* C6: a CREATE_NEW_CLIENT decision at a threshold stays CREATE_NEW_CLIENT at
\* every higher threshold for the same candidate and registry, and the best
\* score and client that a decision reports are the same at every threshold.
C6_ThresholdMonotone ==
    pc = "done" =>
        LET st == Locals
        IN  \A t2 \in AllThresholds :
                LET d2 == DecisionAt(st, t2)
                IN  /\ (CreateNew(result) /\ t2 >= threshold) => CreateNew(d2)
                    /\ (UseMatch(d2) /\ UseMatch(result)) =>
                          /\ d2.matched_client_id = result.matched_client_id
                          /\ d2.confidence_score = result.confidence_score
                    /\ (CreateNew(d2) /\ CreateNew(result)) =>
                          d2.confidence_score = result.confidence_score

\* a borderline decision: rejected at this threshold, accepted at a lower one,
\* with a higher threshold left to try
C6_Witness ==
    /\ pc = "done"
    /\ CreateNew(result)
    /\ best_score > 0
    /\ \E t1 \in AllThresholds :
          /\ t1 < threshold
          /\ UseMatch(DecisionAt(Locals, t1))
    /\ \E t2 \in AllThresholds : t2 > threshold

SortedDescending(alts) ==
    \A i \in 1..Len(alts) : \A k \in 1..Len(alts) :
        i < k => alts[i].confidence_score >= alts[k].confidence_score

\* C7: the returned alternative_matches is sorted by non-increasing confidence
\* and has at most 3 entries in a USE_MATCH decision and at most 5 in a
\* CREATE_NEW_CLIENT decision.
C7_AlternativesSortedAndCapped ==
    (pc = "done" /\ "alternative_matches" \in DOMAIN result) =>
        /\ SortedDescending(result.alternative_matches)
        /\ UseMatch(result) => Len(result.alternative_matches) <= 3
        /\ CreateNew(result) => Len(result.alternative_matches) <= 5

\* more than five alternatives were recorded, in an order that is not the
\* returned one, and none was accepted
C7_Witness ==
    /\ pc = "done"
    /\ CreateNew(result)
    /\ Len(alternative_matches) > 5
    /\ ~SortedDescending(alternative_matches)
    /\ Len(result.alternative_matches) = 5

\* C8: "Acme Corporation" against the registry ["Acme Corp"] at threshold
\* 0.75: both names normalize to "acme", the exact match fires and the
\* decision is USE_MATCH of client C1 with confidence 1.0.
C8_AcmeScenario ==
    ( /\ pc = "done"
      /\ client_info = Candidate(AcmeCorporation, <<>>)
      /\ existing_clients = Registry(<<PoolClient(AcmeCorp, <<>>)>>)
      /\ threshold = 75 ) =>
        /\ normalized_primary = <<"a", "c", "m", "e">>
        /\ _normalize_name(AcmeCorp) = <<"a", "c", "m", "e">>
        /\ UseMatch(result)
        /\ result.matched_client_id = "C1"
        /\ result.confidence_score = 100
        /\ result.match_reasons = <<[kind |-> "exact"]>>

\* C9: when the best score is below the threshold the decision is
\* CREATE_NEW_CLIENT without a matched client id, its confidence is the best
\* score (0.0 when no client scored), and the suggested name is the primary
\* name as extracted.
C9_BelowThreshold ==
    (pc = "done" /\ best_score < threshold) =>
        /\ CreateNew(result)
        /\ result.matched_client_id = None
        /\ result.confidence_score = best_score
        /\ result.suggested_client_name = client_info.primary_name

\* "Globex" against the registry ["Initech"] at threshold 0.75
C9_Witness ==
    /\ pc = "done"
    /\ client_info = Candidate(Globex, <<>>)
    /\ existing_clients = Registry(<<PoolClient(Initech, <<>>)>>)
    /\ threshold = 75
    /\ result.confidence_score = 15
    /\ result.suggested_client_name # NormPrimary

\* the aliases of client i that normalize like the primary name
ExactAliases(i) ==
    LET normPrimary == NormPrimary
    IN  { j \in 1..Len(existing_clients[i].client_aliases) :
            _normalize_name(existing_clients[i].client_aliases[j])
                = normPrimary }

\* the primary name equals an alias of client i and not its name
AliasExact(i) ==
    /\ existing_clients[i].client_aliases # <<>>
    /\ _normalize_name(existing_clients[i].client_name) # NormPrimary
    /\ ExactAliases(i) # {}

\* every comparison of a candidate name with a client name or alias scores
\* at most cap, but for the comparisons with the aliases of client i that
\* equal the primary name
OthersAtMost(i, cap) ==
    LET names == allNames(client_info)
    IN  \A n \in 1..Len(names) : \A k \in 1..Len(existing_clients) :
            LET name == _normalize_name(names[n])
                client == existing_clients[k]
            IN  /\ ratio(name, _normalize_name(client.client_name)) <= cap
                /\ \A j \in 1..Len(client.client_aliases) :
                      \/ k = i /\ j \in ExactAliases(i)
                      \/ ratio(name, _normalize_name(client.client_aliases[j]))
                             <= cap

\* client i is the match, found by the alias comparison and explained by the
\* alias that won
SelectedViaAlias(i) ==
    /\ UseMatch(result)
    /\ result.matched_client_id = existing_clients[i].client_id
    /\ \E j \in ExactAliases(i) :
          result.match_reasons =
              <<[kind |-> "alias", score |-> 100,
                 alias |-> existing_clients[i].client_aliases[j]]>>

\* C10 as stated: when the primary name equals an alias of a client and not
\* its name, and no comparison in the registry scores better than that alias,
\* the client is selected through the alias comparison wherever it sits.
C10_AliasMatchAnywhere ==
    pc = "done" =>
        \A i \in 1..Len(existing_clients) :
            (AliasExact(i) /\ OthersAtMost(i, 100))
                => SelectedViaAlias(i)

\* a comparison elsewhere that scores from 96 to 99 takes the match from the
\* alias that equals the primary name
C10_NearMiss ==
    /\ pc = "done"
    /\ \E i \in 1..Len(existing_clients) :
          /\ AliasExact(i)
          /\ OthersAtMost(i, 99)
          /\ ~OthersAtMost(i, 95)
          /\ ~SelectedViaAlias(i)

\* C10 as amended: when the primary name equals an alias of a client and not
\* its name, and every other comparison of a candidate name with a client
\* name or alias in the registry scores at most 95, the client is selected
\* through the alias comparison, with the winning alias as the only reason,
\* wherever it sits in the registry.
C10_AliasMatchUncontested ==
    pc = "done" =>
        \A i \in 1..Len(existing_clients) :
            (AliasExact(i) /\ OthersAtMost(i, 95))
                => SelectedViaAlias(i)

\* the alias match wins for a client that is not the first of the registry
C10_Witness ==
    /\ pc = "done"
    /\ \E i \in 2..Len(existing_clients) :
          /\ AliasExact(i)
          /\ OthersAtMost(i, 95)
          /\ SelectedViaAlias(i)
          /\ best_match = i

\* the comparisons of the scan so far that were made with client i
ComparedWith(i) ==
    {k \in 1..Len(compared) : compared[k].client = i}

\* the highest score client i has attained in the scan so far
Attained(i) ==
    LET scores == {compared[k].score : k \in ComparedWith(i)} \cup {0}
    IN  CHOOSE s \in scores : \A t \in scores : t <= s

\* the clients the scan has compared so far
Examined ==
    {i \in 1..Len(existing_clients) : ComparedWith(i) # {}}

\* the highest score computed so far
Highest ==
    LET scores == {compared[k].score : k \in 1..Len(compared)} \cup {0}
    IN  CHOOSE s \in scores : \A t \in scores : t <= s

\* the clients that attained the highest score
Holders ==
    {i \in Examined : Attained(i) = Highest}

Earliest(S) ==
    CHOOSE i \in S : \A j \in S : i <= j

\* the scan has taken the exact-match short-circuit
ShortCircuited ==
    \E k \in 1..Len(compared) : compared[k].alias = -1

Scanning ==
    pc \in {"loop", "scored", "done"}

\* C11: first-seen wins ties: when two or more clients attain the same highest
\* score (0-100), the best client is the earliest of them in registry order,
\* at every point of the scan: a later client never displaces an earlier one
\* that holds an equal score.
C11_FirstSeenWinsTies ==
    (Scanning /\ Cardinality(Holders) >= 2) => best_match = Earliest(Holders)

\* C11 as amended: while the scan has not taken the exact-match short-circuit
\* and the highest score computed so far is above 0, the best client is the
\* earliest client that attained that score, and it holds that score; once
\* the short-circuit is taken the best client is the exact match, whatever
\* an earlier client holds.
C11_FirstSeenWinsFuzzyTies ==
    Scanning =>
        /\ (~ShortCircuited /\ Highest > 0) =>
              /\ best_match = Earliest(Holders)
              /\ best_score = Highest
        /\ ShortCircuited =>
              /\ best_match = compared[Len(compared)].client
              /\ best_score = 100

\* two clients tie on the highest score, the earlier one is matched, and the
\* later one is not the last client of the registry
C11_Witness ==
    /\ pc = "done"
    /\ ~ShortCircuited
    /\ Highest > 0
    /\ Cardinality(Holders) >= 2
    /\ UseMatch(result)
    /\ result.matched_client_id = existing_clients[Earliest(Holders)].client_id
    /\ Earliest(Holders) > 1

\* the keys of a fully populated decision
DecisionKeys ==
    {"matched_client_id", "matched_client_name", "confidence_score",
     "recommendation", "match_reasons", "alternative_matches"}

\* C12: every call returns a decision that is in exactly one of the two
\* recommendation states and that carries, on every return path,
\* matched_client_id, matched_client_name, confidence_score, a recommendation,
\* match_reasons and alternative_matches.
C12_FullyPopulated ==
    pc = "done" =>
        /\ UseMatch(result) # CreateNew(result)
        /\ DecisionKeys \subseteq DOMAIN result

\* C13: _match_client never mutates its inputs: no step of a call changes the
\* registry snapshot (the clients, their ids, names and aliases) or the
\* candidate's primary_name and alternative_names.
C13_InputsUnchanged ==
    [][existing_clients' = existing_clients /\ client_info' = client_info]_vars

\* a finished call that compared alternative names and aliases and recorded
\* a match
C13_Witness ==
    /\ pc = "done"
    /\ client_info.alternative_names # <<>>
    /\ \E i \in 1..Len(existing_clients) :
          /\ existing_clients[i].client_aliases # <<>>
          /\ \E k \in ComparedWith(i) : compared[k].alias > 0
    /\ UseMatch(result)
    /\ result.matched_client_id # None

\* the step is a call of map_client
MapClientCall ==
    calls' = calls + 1

\* C14: a call of map_client on a candidate that has no primary_name raises:
\* it returns no decision, saves no mapping result and fetches no registry,
\* and the mapper's client cache is as it was.
C14_NoPrimaryNameRaises ==
    [][(MapClientCall /\ lacksPrimaryName(argument')) =>
          /\ mapped' = Raised
          /\ "decision" \notin DOMAIN mapped'
          /\ saved' = saved
          /\ api_calls' = api_calls
          /\ client_cache' = client_cache
          /\ client_cache_timestamp' = client_cache_timestamp]_vars

\* the call without primary_name has raised on a mapper whose cache had
\* expired, where a well-formed call would have fetched the registry again
C14_Witness ==
    /\ calls >= 2
    /\ lacksPrimaryName(argument)
    /\ mapped = Raised
    /\ client_cache # NoCache
    /\ current_time - client_cache_timestamp >= cache_ttl
    /\ api_calls = 1
    /\ Len(saved) = 1

\* the position in the registry of the client with this id
PositionOf(id) ==
    CHOOSE i \in 1..Len(existing_clients) : existing_clients[i].client_id = id

\* C15: the exact-match short-circuit is an early exit: once the first client
\* whose normalized name equals the normalized primary name is reached, no
\* client after it is examined, so it is the matched client and the
\* alternatives, recorded and returned, are clients that precede it.
C15_ShortCircuitIsEarlyExit ==
    pc = "done" =>
        LET exact == ExactClients
            first == CHOOSE i \in exact : \A k \in exact : i <= k
        IN  exact # {} =>
                /\ \A k \in 1..Len(compared) : compared[k].client <= first
                /\ best_match = first
                /\ \A k \in 1..Len(alternative_matches) :
                      PositionOf(alternative_matches[k].client_id) < first
                /\ result.matched_client_id = existing_clients[first].client_id
                /\ \A k \in 1..Len(result.alternative_matches) :
                      PositionOf(result.alternative_matches[k].client_id)
                          < first

\* an exact match with an alternative recorded before it and a client after
\* it that is an exact match too
C15_Witness ==
    /\ pc = "done"
    /\ ExactClients # {}
    /\ FirstExact < Len(existing_clients)
    /\ Len(existing_clients) \in ExactClients
    /\ result.alternative_matches # <<>>
    /\ result.matched_client_id = existing_clients[FirstExact].client_id

\* the normalized names to check
NormNamesToCheck ==
    {_normalize_name(allNames(client_info)[k]) :
         k \in 1..Len(allNames(client_info))}

\* an alternative name of the candidate normalizes like the name of a client
AltNameIsClientName ==
    \E k \in 1..Len(client_info.alternative_names),
       i \in 1..Len(existing_clients) :
        _normalize_name(client_info.alternative_names[k]) =
            _normalize_name(existing_clients[i].client_name)

\* a name of the candidate normalizes like an alias of client i
NameIsAliasOf(i) ==
    LET names == NormNamesToCheck
    IN  \E j \in 1..Len(existing_clients[i].client_aliases) :
            _normalize_name(existing_clients[i].client_aliases[j]) \in names

\* every client of the registry has been examined
AllExamined ==
    Examined = 1..Len(existing_clients)

\* C16: only the primary name compared with a client's canonical name ends
\* the scan early; an alternative name that normalizes like a client name, or
\* any name that normalizes like a client alias, gives score 100 on the fuzzy
\* path and the scan goes on, so that every client is examined.
C16_OnlyPrimaryExits ==
    (pc = "done" /\ existing_clients # <<>>) =>
        LET exact == ExactClients
        IN  /\ ShortCircuited <=> exact # {}
            /\ exact = {} =>
                  /\ AllExamined
                  /\ (AltNameIsClientName
                          \/ \E i \in 1..Len(existing_clients) :
                                NameIsAliasOf(i))
                        => best_score = 100

\* an alias of client i was compared with a name that normalizes like it
AliasMetItsName(i) ==
    \E k \in ComparedWith(i) :
        /\ compared[k].alias > 0
        /\ compared[k].name =
              _normalize_name(
                  existing_clients[i].client_aliases[compared[k].alias])

\* C16 as amended: only the primary name compared with a client's canonical
\* name ends the scan early; an alternative name that normalizes like a
\* client name, or any name that normalizes like an alias that is compared
\* with it (the running best being at most 95 when the alias has its turn),
\* gives score 100 on the fuzzy path and the scan goes on, so that every
\* client is examined.
C16_OnlyPrimaryExitsComparedAlias ==
    (pc = "done" /\ existing_clients # <<>>) =>
        LET exact == ExactClients
        IN  /\ ShortCircuited <=> exact # {}
            /\ exact = {} =>
                  /\ AllExamined
                  /\ \/ best_score = 100
                     \/ ~(\/ AltNameIsClientName
                          \/ \E i \in 1..Len(existing_clients) :
                                AliasMetItsName(i) /\ NameIsAliasOf(i))

\* a name to check equals the name or an alias of the first client, which
\* scores 100 on the fuzzy path, and the clients after it are examined
C16_Witness ==
    /\ pc = "done"
    /\ Len(existing_clients) >= 2
    /\ ExactClients = {}
    /\ AltNameIsClientName \/ (NameIsAliasOf(1) /\ AliasMetItsName(1))
    /\ Attained(1) = 100
    /\ AllExamined
    /\ result.confidence_score = 100

\* the running best when the scan came to client i
BestBefore(i) ==
    LET first == Earliest(ComparedWith(i))
    IN  IF first = 1 THEN 0 ELSE compared[first - 1].best

\* the running best after the names to check are compared with the name of
\* client i, its aliases left aside
BestAfterOwnName(i) ==
    LET scores == {compared[k].score :
                       k \in {c \in ComparedWith(i) : compared[c].alias = 0}}
                  \cup {BestBefore(i)}
    IN  CHOOSE s \in scores : \A t \in scores : t <= s

\* alias j of client i (its name when j = 0) was compared with the name
PairCompared(i, j, name) ==
    \E k \in ComparedWith(i) :
        compared[k].alias = j /\ compared[k].name = name

\* the clients examined on the fuzzy path
FuzzyExamined ==
    {i \in Examined : \A k \in ComparedWith(i) : compared[k].alias >= 0}

\* C17: alias skipping is per client: the aliases of a client are left
\* uncompared only when the running best after the comparison with the
\* client's own name is above 95; otherwise every alias of the client is
\* compared with every name to check, and the best is updated when an alias
\* scores strictly higher.
C17_AliasSkipPerClient ==
    pc = "done" =>
        /\ \A i \in FuzzyExamined :
              BestAfterOwnName(i) <= 95 =>
                  \A j \in 1..Len(existing_clients[i].client_aliases),
                     name \in NormNamesToCheck : PairCompared(i, j, name)
        /\ compared # <<>> => best_score = compared[Len(compared)].best

\* C17 as amended: alias skipping is per client and per name to check: every
\* name is compared with the client's own name; when the running best after
\* that comparison is above 95 no alias of the client is compared with that
\* name, and otherwise every alias of the client is compared with that name,
\* in order, the best being updated when an alias scores strictly higher.
C17_AliasSkipPerName ==
    pc = "done" =>
        /\ \A i \in FuzzyExamined, name \in NormNamesToCheck :
              PairCompared(i, 0, name)
        /\ \A p \in 1..Len(compared) :
              compared[p].alias = 0 =>
                  LET e == compared[p]
                      n == Len(existing_clients[e.client].client_aliases)
                  IN  IF e.best <= 95
                      THEN /\ p + n <= Len(compared)
                           /\ \A j \in 1..n :
                                 /\ compared[p + j].client = e.client
                                 /\ compared[p + j].name = e.name
                                 /\ compared[p + j].alias = j
                                 /\ compared[p + j].best =
                                       Max(compared[p + j - 1].best,
                                           compared[p + j].score)
                      ELSE p = Len(compared) \/ compared[p + 1].alias <= 0
        /\ compared # <<>> => best_score = compared[Len(compared)].best

\* a client whose alias was compared with the first name, where it scored
\* 100, and not with the second, although no name scores above 95 against
\* the client's own name
C17_Witness ==
    /\ pc = "done"
    /\ Len(allNames(client_info)) = 2
    /\ \E i \in FuzzyExamined :
          /\ BestAfterOwnName(i) <= 95
          /\ existing_clients[i].client_aliases # <<>>
          /\ PairCompared(i, 1, _normalize_name(client_info.primary_name))
          /\ ~PairCompared(i, 1,
                 _normalize_name(client_info.alternative_names[1]))
    /\ best_score = 100

\* the alternatives recorded for client i, in the order recorded
RecordedFor(i) ==
    {k \in 1..Len(alternative_matches) :
         alternative_matches[k].client_id = existing_clients[i].client_id}

\* client i was the global best when its iteration ended: one of its scores
\* exceeded the running best
BestAfterOwnIteration(i) ==
    Attained(i) > BestBefore(i)

\* C18: a client is recorded in alternative_matches exactly when its own best
\* score in its iteration (over its name and its compared aliases) lies
\* strictly between 60 and 95 and it is not the global best at that moment;
\* it is recorded with its own best score as confidence.
C18_AlternativeByOwnScore ==
    Scanning =>
        \A i \in FuzzyExamined :
            /\ RecordedFor(i) # {} <=>
                  /\ Attained(i) > 60
                  /\ Attained(i) < 95
                  /\ ~BestAfterOwnIteration(i)
            /\ \A k \in RecordedFor(i) :
                  alternative_matches[k].confidence_score = Attained(i)

\* the reason the code gives for a computed score
ReasonOf(e) ==
    IF e.alias = -1 THEN [kind |-> "exact"]
    ELSE IF e.alias = 0 THEN [kind |-> "client name", score |-> e.score]
    ELSE [kind |-> "alias", score |-> e.score,
          alias |-> existing_clients[e.client].client_aliases[e.alias]]

\* the comparison that set the final best score: the exact match when the
\* scan ended on it, else the first one to reach the final score
Winning ==
    IF ShortCircuited THEN Len(compared)
    ELSE Earliest({k \in 1..Len(compared) : compared[k].best = best_score})

\* C19: in every USE_MATCH decision with a matched client, match_reasons is
\* the reason of the comparison with the matched client that set the final
\* best score, and holds no reason left from a comparison with another
\* client.
C19_ReasonsOfWinner ==
    (pc = "done" /\ UseMatch(result) /\ best_match # NoClient) =>
        /\ compared[Winning].client = best_match
        /\ result.match_reasons = <<ReasonOf(compared[Winning])>>

\* sub occurs in s as a substring
Contains(s, sub) ==
    \E i \in 0..(Len(s) - Len(sub)) :
        \A k \in 1..Len(sub) : s[i + k] = sub[k]

\* the designators the result is to be free of
Designators ==
    {<<"i", "n", "c", "o", "r", "p", "o", "r", "a", "t", "e", "d">>,
     <<"c", "o", "r", "p", "o", "r", "a", "t", "i", "o", "n">>,
     <<"l", "l", "c">>,
     <<"l", "t", "d">>,
     <<"l", "i", "m", "i", "t", "e", "d">>,
     <<"g", "m", "b", "h">>,
     <<"c", "o", "m", "p", "a", "n", "y">>}

\* C20: _normalize_name strips each legal-entity designator wherever it
\* occurs in the lower-cased name, with or without a space before it and also
\* when it only appears once the periods are removed: the result contains
\* none of "incorporated", "corporation", "llc", "ltd", "limited", "gmbh",
\* "company", and no comma or period.
C20_DesignatorsStripped ==
    npc # "in" =>
        /\ \A d \in Designators : ~Contains(norm_once, d)
        /\ ~Contains(norm_once, <<",">>)
        /\ ~Contains(norm_once, <<".">>)

\* a step of map_client that reached _get_clients (line 109)
GetClientsCall ==
    MapClientCall /\ ~lacksPrimaryName(argument')

\* no snapshot yet, or the snapshot is at least cache_ttl seconds old
Stale ==
    \/ client_cache = NoCache
    \/ current_time - client_cache_timestamp >= cache_ttl

\* C21: over the calls of _get_clients on one ClientMapper, the API is called
\* on the first call and afterwards exactly on the calls made at least
\* cache_ttl (3600) seconds after the last fetch; every call in between
\* returns the snapshot of the last fetch without an API call, and a fetch
\* replaces both the snapshot and its timestamp.
C21_CacheTtl ==
    [][GetClientsCall =>
         IF Stale
         THEN /\ api_calls' = api_calls + 1
              /\ client_cache' = <<got_clients'>>
              /\ client_cache_timestamp' = current_time
              /\ got_clients' \in {erp_clients, <<>>}
         ELSE /\ api_calls' = api_calls
              /\ got_clients' = client_cache[1]
              /\ client_cache' = client_cache
              /\ client_cache_timestamp' = client_cache_timestamp]_vars

\* a call answered from a snapshot that ERPNext no longer agrees with, on a
\* mapper that has already fetched twice
C21_Witness ==
    /\ api_calls = 2
    /\ client_cache # NoCache
    /\ current_time - client_cache_timestamp > 0
    /\ current_time - client_cache_timestamp < cache_ttl
    /\ got_clients = client_cache[1]
    /\ got_clients # erp_clients
    /\ got_clients # <<>>
    /\ calls = 3

\* the decision of lines 112-119: create a new client, confidence 0.0
CreateNewAtZero(ended) ==
    /\ ~ended.raised
    /\ CreateNew(ended.decision)
    /\ ended.decision.confidence_score = 0
    /\ ended.decision.matched_client_id = None

\* C22: a request for the clients that fails gives _get_clients the empty
\* list, which is cached like an answer: the call that met the failure and
\* every later call before the TTL has run out return CREATE_NEW_CLIENT with
\* confidence 0.0, and none of the later ones asks ERPNext again.
C22_FailedFetchIsCached ==
    [][GetClientsCall =>
         /\ (api_calls' = api_calls + 1 /\ fetch_ok' = "failed")
               => /\ client_cache' = <<<<>>>>
                  /\ client_cache_timestamp' = current_time
                  /\ CreateNewAtZero(mapped')
         /\ (fetch_ok = "failed" /\ ~Stale)
               => /\ api_calls' = api_calls
                  /\ fetch_ok' = "failed"
                  /\ client_cache' = <<<<>>>>
                  /\ CreateNewAtZero(mapped')]_vars

\* ERPNext holds Globex, the only request failed half an hour ago, and
\* Globex has just been mapped to a new client
C22_Witness ==
    /\ fetch_ok = "failed"
    /\ api_calls = 1
    /\ calls = 2
    /\ current_time - client_cache_timestamp = ClockStep
    /\ erp_clients = Registry(<<PoolClient(Globex, <<>>)>>)
    /\ argument = Candidate(Globex, <<>>)
    /\ CreateNewAtZero(mapped)

\* no client id occurs twice in a list of alternatives
DistinctClients(alts) ==
    \A i \in 1..Len(alts) : \A k \in 1..Len(alts) :
        i # k => alts[i].client_id # alts[k].client_id

\* C29: in a decision of _match_client over a registry with unique client
\* ids, the matched client is not among the alternative_matches, and no client
\* is among them twice; the same holds of the list before it is sorted and cut.
C29_AlternativesAreOthers ==
    (pc = "done" /\ "alternative_matches" \in DOMAIN result) =>
        /\ DistinctClients(alternative_matches)
        /\ DistinctClients(result.alternative_matches)
        /\ \A i \in 1..Len(alternative_matches) :
              alternative_matches[i].client_id # result.matched_client_id
        /\ \A i \in 1..Len(result.alternative_matches) :
              result.alternative_matches[i].client_id
                 # result.matched_client_id

\* a fuzzy match is used whose score lies in the band of the alternatives, and
\* alternatives were recorded on both sides of the matched client
C29_Witness ==
    /\ pc = "done"
    /\ UseMatch(result)
    /\ result.confidence_score < 95
    /\ result.confidence_score > 60
    /\ Len(result.alternative_matches) >= 2
    /\ \E i \in 1..Len(alternative_matches) :
          PositionOf(alternative_matches[i].client_id)
             < PositionOf(result.matched_client_id)
    /\ \E i \in 1..Len(alternative_matches) :
          PositionOf(alternative_matches[i].client_id)
             > PositionOf(result.matched_client_id)

\* a step that is a call of generate_alerts
GenerateAlertsCall ==
    alert_calls' = alert_calls + 1

\* the record has an expiration date, at most some alert period away
WithinSomePeriod(record, periods, now) ==
    /\ record.expiration_date.form # "none"
    /\ \E k \in 1..Len(periods) :
          record.expiration_date.day - now <= periods[k]

\* C28: a call of generate_alerts creates at most one expiration alert,
\* whatever the list of alert periods: exactly one when the record has an
\* expiration date and the days until it are at most some alert period, none
\* otherwise; and it never raises to the caller.
C28_OneAlertWhenWithin ==
    [][GenerateAlertsCall =>
         /\ Len(alerts') - Len(alerts) <= 1
         /\ Len(alerts') - Len(alerts) = 1
               <=> WithinSomePeriod(erpnext_record', alert_periods, today)
         /\ ~last'.raised]_vars

\* C28, amended: the call creates at most one expiration alert and never
\* raises; it sends exactly one request for an alert when the expiration date
\* is a %Y-%m-%d string and the days until it are at most some alert period,
\* and none otherwise; the alert exists unless ERPNext refuses that request.
C28_OneRequestWhenIsoWithin ==
    [][GenerateAlertsCall =>
         LET made == Len(alerts') - Len(alerts)
         IN  /\ made <= 1
             /\ made = last'.created
             /\ made + last'.lost = 1
                   <=> /\ erpnext_record'.expiration_date.form = "iso"
                       /\ WithinSomePeriod(erpnext_record', alert_periods,
                                           today)
             /\ made + last'.lost \in {0, 1}
             /\ ~last'.raised]_vars

\* the days are within several of the configured periods, and one alert was
\* created
C28_Witness ==
    /\ last = [op |-> "generate_alerts", created |-> 1, lost |-> 0,
               logged |-> FALSE, raised |-> FALSE]
    /\ Cardinality(within(alert_periods,
                          erpnext_record.expiration_date.day - today)) >= 2
    /\ Len(alerts) = 1
    /\ today = 1

(***************************************************************************)
(* Properties of the cycles of process_documents.                          *)
(***************************************************************************)
\* a step that starts a cycle: the monitor is built and get_new_documents
\* is called
GetNewDocumentsCall ==
    cycles' = cycles + 1

Range(seq) ==
    {seq[i] : i \in 1..Len(seq)}

\* reading or writing processed_files.pickle has failed at some time
IdFileFailed ==
    failed \cap {"load", "save"} # {}

Attempt(stage) ==
    /\ cycle_pc = "docs"
    /\ doc_idx' = doc_idx + 1
    /\ last'.stage = stage

\* the loop goes on with the next document, or to the check of expirations
\* after the last one
LoopGoesOn ==
    cycle_pc' = IF doc_idx < Len(new_documents) THEN "docs" ELSE "expirations"

\* nothing was asked of the mapper or of ERPNext
NoMappingNoRecords ==
    UNCHANGED <<client_cache, client_cache_timestamp, got_clients, api_calls,
                erp_clients, contracts, alerts, alert_calls>>

\* the documents whose last attempt ended at stage
EndedAt(stage) ==
    {doc \in Docs : outcome[doc] = stage}

ClientsKept ==
    /\ Len(erp_clients') >= Len(erp_clients)
    /\ \A i \in 1..Len(erp_clients) : erp_clients'[i] = erp_clients[i]

\* what an iteration whose update_records raised has done for doc
UpdateFailureHandled(doc) ==
    /\ error_alerts' = Append(error_alerts, doc)
    /\ alerts' = alerts
    /\ alert_calls' = alert_calls
    /\ contracts' = contracts
    /\ doc \in marked'
    /\ doc \in processed_ids'
    /\ LoopGoesOn
    /\ IF last'.created_client
       THEN /\ "contract" \in last'.failed
            /\ Len(erp_clients') = Len(erp_clients) + 1
            /\ erp_clients'[Len(erp_clients')].client_name
                  = Extraction(doc).client_info.primary_name
       ELSE erp_clients' = erp_clients

RaisedEarlyHandled(doc) ==
    /\ error_alerts' = Append(error_alerts, doc)
    /\ marked' = marked
    /\ processed_ids' = processed_ids
    /\ processed_file' = processed_file
    /\ UNCHANGED <<erp_clients, contracts, alerts>>
    /\ LoopGoesOn

\* the documents whose last attempt ended in download_document or in
\* map_client
ToRetry ==
    EndedAt("download") \cup EndedAt("map_client")

\* a cycle that was given documents attempts each of them and ends with
\* check_contract_expirations
CycleRunsToItsEnd ==
    /\ cycle_pc = "docs" =>
          /\ cycle_pc' \in {"docs", "expirations"}
          /\ new_documents' = new_documents
          /\ doc_idx' \in {doc_idx, doc_idx + 1}
    /\ cycle_pc = "expirations" =>
          \/ cycle_pc' = "expirations"
          \/ cycle_pc' = "idle" /\ expiration_checks' = expiration_checks + 1

Periodic ==
    {i \in 1..Len(alerts) : alerts[i].by = "check_contract_expirations"}

\* C27: across the cycles, check_contract_expirations creates at most one
\* expiration alert for a contract and an alert period (days_ahead); stated
\* of the behaviours in which no operation fails.
C27_OncePerPeriod ==
    failed = {} =>
        \A i \in Periodic : \A k \in Periodic :
            ( /\ alerts[i].contract_id = alerts[k].contract_id
              /\ alerts[i].days_until_expiration
                    = alerts[k].days_until_expiration ) => i = k

\* a step in which update_records created a Client record
ClientCreated ==
    /\ cycle_pc = "docs"
    /\ doc_idx' = doc_idx + 1
    /\ last'.created_client

\* C30: within a cycle, a second document that yields the primary name of a
\* client update_records created for an earlier document is mapped to that
\* client: no Client record is created for a name that, normalized, is the
\* name of a client ERPNext already holds; stated of the behaviours in which
\* no operation fails.
C30_OneClientPerName ==
    [][(ClientCreated /\ failed' = {}) =>
          \A i \in 1..Len(erp_clients) :
              _normalize_name(erp_clients[i].client_name)
                 # _normalize_name(
                      Extraction(new_documents[doc_idx]).client_info
                         .primary_name)]_vars

====
